---- MODULE Spec2Model ----
(***************************************************************************)
(* Model of the vaas Rust client connection engine                         *)
(* (rust/src/connection.rs): request operations sharing one websocket      *)
(* writer behind a mutex, a broadcast channel fed by the reader loop and   *)
(* the keep-alive loop, the unknown-verdict upload sub-protocol, per-recv  *)
(* timeouts and the abort of both background tasks on Drop.                *)
(***************************************************************************)
EXTENDS Integers, Sequences, FiniteSets, TLC

\* ---------------------------------------------------------------- bounds
MaxFrames == 2
MaxTicks == 1
Cap == 1
D == 1

\* two request operations may be in flight at once; the guid of request r is r
Reqs == {1, 2}
\* a response may also carry the guid of a request that is no longer there
Guids == Reqs \cup {3}

Kinds == {"sha256", "url", "file", "buf", "stream"}
Uploading == {"file", "buf", "stream"}

\* ------------------------------------------------------- values in flight
NoResp == [guid |-> 0, verdict |-> "-", url |-> FALSE, upload_token |-> FALSE]

Responses ==
    { [guid |-> g, verdict |-> "Clean", url |-> FALSE, upload_token |-> FALSE] : g \in Guids }
    \cup { [guid |-> g, verdict |-> "Unknown", url |-> u, upload_token |-> t] :
             g \in Guids, u \in BOOLEAN, t \in BOOLEAN }
    \cup { [guid |-> g, verdict |-> "Bogus", url |-> FALSE, upload_token |-> FALSE] : g \in Guids }

Frames ==
    { [kind |-> "Text", vr |-> r] : r \in Responses }
    \cup { [kind |-> k, vr |-> NoResp] :
             k \in {"TextGarbage", "Ping", "Pong", "Close", "Binary", "ReadError"} }

OkItem(v) == [ok |-> TRUE, vr |-> v, err |-> "-"]
ErrItem(e) == [ok |-> FALSE, vr |-> NoResp, err |-> e]

NoResult == [tag |-> "none", val |-> "-"]
Ok(v) == [tag |-> "ok", val |-> v]
Err(e) == [tag |-> "err", val |-> e]
\* the operation unwinds with a panic instead of returning
Panic == [tag |-> "panic", val |-> "-"]

\* VerdictRequest::new carries the hash; VerdictRequestForUrl::new and
\* VerdictRequestForStream::new carry none
NoRequest == [type |-> "-", sha256 |-> FALSE]
NewRequest(k) ==
    CASE k = "url" -> [type |-> "VerdictRequestForUrl", sha256 |-> FALSE]
      [] k = "stream" -> [type |-> "VerdictRequestForStream", sha256 |-> FALSE]
      [] OTHER -> [type |-> "VerdictRequest", sha256 |-> TRUE]

\* lengths a file, a buffer or the caller of for_stream may give
Lens == {1, 2}

\* ------------------------------------------------------------------ state
VARIABLES
    alive,            \* the Connection object exists (not yet dropped)
    keep_alive,       \* options.keep_alive
    ct,               \* duration of the caller's CancellationToken
    ws_writer,        \* TRUE while the writer mutex is held
    result_channel,   \* items the broadcast channel retains for some receiver,
                      \* oldest first
    reader_thread,    \* "running" | "terminated" | "aborted"
    nframes,          \* frames the reader obtained from the transport so far
    keep_alive_thread,\* "none" | "sleep" | "lock_ping" | "ping" | "lock_flush"
                      \* | "flush" | "terminated" | "aborted"
    nticks,           \* keep-alive ticks started
    ka_failed,        \* a ping or flush of the keep-alive loop has failed
    pc,               \* position of each request operation
    kind,             \* which public operation the request is
    rx,               \* -1: the request holds no receiver; otherwise the number
                      \* of items sent to its receiver and not yet received
    response,         \* response returned by the first wait_for_response
    resp,             \* response returned by the wait after the upload
    result,           \* value returned to the caller
    puts,             \* HTTP PUTs started by the request
    waits,            \* wait_for_response calls begun by the request
    recvT,            \* time since the current timeout(recv()) began
    waitT,            \* time since the current wait_for_response began
    discards,         \* successful responses for other guids the request's
                      \* waits have discarded
    doomed,           \* a failure was published while the request was blocked
    aborted_in,       \* where the keep-alive task was when Drop aborted it
    channel_capacity, \* options.channel_capacity
    request,          \* the request message the operation built
    content_length,   \* length of the data of a file or buffer request, length
                      \* the caller declared for a stream request
    put_len,          \* Content-Length header of the request's PUT
    upload_status,    \* HTTP status the PUT was answered with
    lagged_by,        \* items the request's receiver had missed when its
                      \* recv() reported the lag
    completed,        \* the requests in the order their operations returned
    output            \* the Vec join_all returned, << >> before that

vars == << alive, keep_alive, ct, ws_writer, result_channel, reader_thread, nframes,
           keep_alive_thread, nticks, ka_failed, pc, kind, rx, response,
           resp, result, puts, waits, recvT, waitT, discards, doomed, aborted_in,
           channel_capacity, request, content_length, put_len, upload_status,
           lagged_by, completed, output >>

connVars == << alive, keep_alive, ct, aborted_in, channel_capacity >>
readerVars == << reader_thread, nframes >>
kaVars == << keep_alive_thread, nticks, ka_failed >>
reqVars == << pc, kind, rx, response, resp, result, puts, waits, recvT, waitT >>
dataVars == << request, content_length, put_len, upload_status, lagged_by >>
batchVars == << completed, output >>


\* ------------------------------------------------------------ conversions
\* Verdict::try_from(&VerdictResponse): decode the verdict status; Unknown
\* needs the upload location, any unrecognised status is an invalid verdict.
VerdictTryFrom(v) ==
    CASE v.verdict = "Clean" -> Ok("Clean")
      [] v.verdict = "Unknown" ->
            IF v.url THEN Ok("Unknown") ELSE Err("NoUploadUrl")
      [] OTHER -> Err("InvalidVerdict")

\* VaasVerdict::try_from(VerdictResponse): wrap the decoded verdict as the
\* public verdict result.
VaasVerdictTryFrom(v) == VerdictTryFrom(v)

\* Elapsed -> Error and RecvError -> Error, applied by the two `?` of
\* wait_for_response.
FromElapsed == "Cancelled"
FromRecvError(e) == IF e = "Lagged" THEN "ReadersLagging" ELSE "ThreadsDropped"

\* Mutant of parse_frame: a pong is taken for an unexpected frame.
parse_frame_pong_invalid(frame) ==
    CASE frame.kind = "Text" -> [ok |-> TRUE, type |-> "VerdictResponse", vr |-> frame.vr, err |-> "-"]
      [] frame.kind = "TextGarbage" -> [ok |-> FALSE, type |-> "-", vr |-> NoResp, err |-> "DeSerialization"]
      [] frame.kind = "Ping" -> [ok |-> TRUE, type |-> "Ping", vr |-> NoResp, err |-> "-"]
      [] frame.kind = "Close" -> [ok |-> TRUE, type |-> "Close", vr |-> NoResp, err |-> "-"]
      [] frame.kind = "ReadError" -> [ok |-> FALSE, type |-> "-", vr |-> NoResp, err |-> "WebSocket"]
      [] OTHER -> [ok |-> FALSE, type |-> "-", vr |-> NoResp, err |-> "InvalidFrame"]

\* MessageType::try_from(&json) on a text payload, then parse_frame.
parse_frame(frame) ==
    CASE frame.kind = "Text" -> [ok |-> TRUE, type |-> "VerdictResponse", vr |-> frame.vr, err |-> "-"]
      [] frame.kind = "TextGarbage" -> [ok |-> FALSE, type |-> "-", vr |-> NoResp, err |-> "DeSerialization"]
      [] frame.kind = "Ping" -> [ok |-> TRUE, type |-> "Ping", vr |-> NoResp, err |-> "-"]
      [] frame.kind = "Pong" -> [ok |-> TRUE, type |-> "Pong", vr |-> NoResp, err |-> "-"]
      [] frame.kind = "Close" -> [ok |-> TRUE, type |-> "Close", vr |-> NoResp, err |-> "-"]
      [] frame.kind = "ReadError" -> [ok |-> FALSE, type |-> "-", vr |-> NoResp, err |-> "WebSocket"]
      [] OTHER -> [ok |-> FALSE, type |-> "-", vr |-> NoResp, err |-> "InvalidFrame"]

\* -------------------------------------------------------- broadcast channel
Waiting == {"wait1", "wait2"}

NoRx == 0 - 1

ReceiverCount == Cardinality({r \in Reqs : rx[r] # NoRx})

\* Sender::send succeeds iff at least one receiver exists.
SendOk == ReceiverCount > 0

KeepAliveRuns ==
    keep_alive_thread \in {"sleep", "lock_ping", "ping", "lock_flush", "flush"}

\* Mutant of SenderCount: the Connection keeps no Sender of its own.
SenderCountOfTasks ==
    (IF reader_thread = "running" THEN 1 ELSE 0) + (IF KeepAliveRuns THEN 1 ELSE 0)

\* the Senders of the channel: the Connection's result_channel (line 61) and
\* the clones moved into the two tasks (lines 53, 54), each dropped with its
\* task's future
SenderCount ==
    (IF alive THEN 1 ELSE 0)
    + (IF reader_thread = "running" THEN 1 ELSE 0) + (IF KeepAliveRuns THEN 1 ELSE 0)

\* recv() reports RecvError::Closed once no Sender is left and nothing is
\* left to receive
Closed == SenderCount = 0

\* broadcast::channel(options.channel_capacity) allocates the next power of
\* two of slots
next_power_of_two(n) == CHOOSE p \in {1, 2, 4, 8} : p >= n /\ (p = 1 \/ p \div 2 < n)
Slots == next_power_of_two(channel_capacity)

HasUnread(r) == rx[r] > 0
\* the receiver missed items: more were sent to it than the channel retains
Lagged(r) == rx[r] > Slots
Blocked(r) == pc[r] \in Waiting /\ rx[r] = 0

\* Mutant of NextItem: recv() yields the newest item first.
NextItemNewest(r) == result_channel[Len(result_channel)]

\* the item recv() yields to a receiver that has not lagged
NextItem(r) == result_channel[Len(result_channel) - rx[r] + 1]

\* Sender::subscribe: the new receiver sees only items sent from now on.
Subscribe == 0

\* The channel retains the newest Cap items; of these the model keeps the
\* ones some receiver has still to receive.
MaxUnread(cur) ==
    IF \A r \in Reqs : cur[r] <= 0 THEN 0
    ELSE CHOOSE n \in 1..(MaxFrames + 2 * MaxTicks) :
            /\ \E r \in Reqs : cur[r] = n
            /\ \A r \in Reqs : cur[r] <= n

Retained(buf, cur) ==
    LET n == IF MaxUnread(cur) > Slots THEN Slots ELSE MaxUnread(cur)
    IN  SubSeq(buf, Len(buf) - n + 1, Len(buf))

\* Mutant of Send: a queue that hands each item to one receiver only.
SendToOne(item) ==
    /\ rx' = [r \in Reqs |-> IF rx[r] # NoRx /\ (\A q \in Reqs : q < r => rx[q] = NoRx)
                                THEN rx[r] + 1 ELSE rx[r]]
    /\ result_channel' = IF SendOk THEN Retained(Append(result_channel, item), rx')
                                   ELSE result_channel
    /\ doomed' = [r \in Reqs |-> doomed[r] \/ (SendOk /\ ~item.ok /\ Blocked(r))]

\* result_channel.send(item): the item is stored only when a receiver
\* exists, and then every receiver has one more item to receive.
Send(item) ==
    /\ rx' = [r \in Reqs |-> IF rx[r] = NoRx THEN NoRx ELSE rx[r] + 1]
    /\ result_channel' = IF SendOk THEN Retained(Append(result_channel, item), rx')
                                   ELSE result_channel
    /\ doomed' = [r \in Reqs |-> doomed[r] \/ (SendOk /\ ~item.ok /\ Blocked(r))]

\* ------------------------------------------------------------------- Init
\* Connection::start with options.keep_alive drawn from KA; the requests
\* are issued with a token whose duration is drawn from CT
InitOver(KA, CT, CAP) ==
    /\ alive = TRUE
    /\ keep_alive \in KA
    /\ ct \in CT
    /\ channel_capacity \in CAP
    /\ ws_writer = FALSE
    /\ result_channel = << >>
    /\ reader_thread = "running"
    /\ nframes = 0
    /\ keep_alive_thread = IF keep_alive THEN "sleep" ELSE "none"
    /\ nticks = 0
    /\ ka_failed = FALSE
    /\ pc = [r \in Reqs |-> "idle"]
    /\ kind = [r \in Reqs |-> "-"]
    /\ rx = [r \in Reqs |-> NoRx]
    /\ response = [r \in Reqs |-> NoResp]
    /\ resp = [r \in Reqs |-> NoResp]
    /\ result = [r \in Reqs |-> NoResult]
    /\ puts = [r \in Reqs |-> 0]
    /\ waits = [r \in Reqs |-> 0]
    /\ recvT = [r \in Reqs |-> 0]
    /\ waitT = [r \in Reqs |-> 0]
    /\ discards = [r \in Reqs |-> 0]
    /\ doomed = [r \in Reqs |-> FALSE]
    /\ aborted_in = "-"
    /\ request = [r \in Reqs |-> NoRequest]
    /\ content_length = [r \in Reqs |-> 0]
    /\ put_len = [r \in Reqs |-> 0]
    /\ upload_status = [r \in Reqs |-> 0]
    /\ lagged_by = [r \in Reqs |-> 0]
    /\ completed = << >>
    /\ output = << >>

\* the operation returns v to its caller; its receiver (if any) is dropped
Return(r, v) ==
    /\ pc' = [pc EXCEPT ![r] = "done"]
    /\ result' = [result EXCEPT ![r] = v]
    /\ rx' = [rx EXCEPT ![r] = NoRx]
    /\ result_channel' = Retained(result_channel, rx')

\* the operation of request r returns in this step: join_all learns of the
\* completions in this order
Completes(r) ==
    completed' = IF pc'[r] = "done" /\ pc[r] # "done" THEN Append(completed, r)
                                                      ELSE completed

\* ------------------------------------------------------ request operations
\* UploadData::get_sha256 of &Path (the file may fail to be read), of
\* Vec<u8> and of StreamUploadable
get_sha256(k, hash_ok) ==
    CASE k = "file" -> IF hash_ok THEN Ok("sha256") ELSE Err("IoError")
      [] k = "buf" -> Ok("sha256")
      [] OTHER -> Panic

\* Mutant of NeedsHash: every operation with data to upload asks it for
\* its hash.
NeedsHashOfAll(k) == k \in Uploading

\* line 222: for_generic (for_file, for_buf) is the one operation that
\* calls get_sha256 on its data
NeedsHash(k) == k \in {"file", "buf"}

\* Mutant of Start: the operation goes on to send without a subscription.
StartUnsubscribed(r, k, hash_ok, n) ==
    /\ alive /\ pc[r] = "idle"
    /\ kind' = [kind EXCEPT ![r] = k]
    /\ content_length' = [content_length EXCEPT ![r] = IF k \in Uploading THEN n ELSE 0]
    /\ pc' = [pc EXCEPT ![r] = "lock"]
    /\ request' = [request EXCEPT ![r] = NewRequest(k)]
    /\ UNCHANGED << connVars, ws_writer, readerVars, kaVars, rx, result, result_channel,
                    response, resp, puts, waits, recvT, waitT, discards, doomed,
                    put_len, upload_status, lagged_by, batchVars >>

\* for_sha256 / for_url / for_stream / for_generic up to the first await:
\* for_generic computes the hash first, then every operation builds its
\* request, subscribes and goes on to lock the writer.
Start(r, k, hash_ok, n) ==
    /\ alive /\ pc[r] = "idle"
    /\ kind' = [kind EXCEPT ![r] = k]
    /\ content_length' = [content_length EXCEPT ![r] = IF k \in Uploading THEN n ELSE 0]
    /\ LET sha256 == IF NeedsHash(k) THEN get_sha256(k, hash_ok) ELSE Ok("-") IN
       IF sha256.tag # "ok"
         THEN /\ Return(r, sha256)
              /\ UNCHANGED request
         ELSE /\ pc' = [pc EXCEPT ![r] = "lock"]
              /\ rx' = [rx EXCEPT ![r] = Subscribe]
              /\ request' = [request EXCEPT ![r] = NewRequest(k)]
              /\ UNCHANGED << result, result_channel >>
    /\ Completes(r)
    /\ UNCHANGED << connVars, ws_writer, readerVars, kaVars,
                    response, resp, puts, waits, recvT, waitT, discards, doomed,
                    put_len, upload_status, lagged_by, output >>

\* Mutant of LockWriter: the writer is taken without waiting for the mutex.
LockWriterNoWait(r) ==
    /\ pc[r] = "lock"
    /\ ws_writer' = TRUE
    /\ pc' = [pc EXCEPT ![r] = "send"]
    /\ UNCHANGED << connVars, result_channel, readerVars, kaVars, kind, rx,
                    response, resp, result, puts, waits, recvT, waitT,
                    discards, doomed, dataVars, batchVars >>

\* ws_writer.lock().await
LockWriter(r) ==
    /\ pc[r] = "lock"
    /\ ~ws_writer
    /\ ws_writer' = TRUE
    /\ pc' = [pc EXCEPT ![r] = "send"]
    /\ UNCHANGED << connVars, result_channel, readerVars, kaVars, kind, rx,
                    response, resp, result, puts, waits, recvT, waitT, discards,
                    doomed, dataVars, batchVars >>

\* Mutant of SendText: a failed send leaves the writer locked.
SendTextKeepsLock(r, outcome) ==
    /\ pc[r] = "send"
    /\ ws_writer' = (outcome # "ok")
    /\ IF outcome = "ok"
         THEN /\ pc' = [pc EXCEPT ![r] = "wait1"]
              /\ waits' = [waits EXCEPT ![r] = @ + 1]
              /\ recvT' = [recvT EXCEPT ![r] = 0]
              /\ waitT' = [waitT EXCEPT ![r] = 0]
              /\ UNCHANGED << rx, result, result_channel >>
         ELSE /\ Return(r, Err(IF outcome = "json_err" THEN "DeSerialization" ELSE "WebSocket"))
              /\ UNCHANGED << waits, recvT, waitT >>
    /\ Completes(r)
    /\ UNCHANGED << connVars, readerVars, kaVars, kind, response,
                    resp, puts, discards, doomed, dataVars, output >>

\* send_text(request.to_json()?).await? under the guard, which is released
\* at the end of the statement whatever the outcome; on success the
\* operation enters wait_for_response.
SendText(r, outcome) ==
    /\ pc[r] = "send"
    /\ ws_writer' = FALSE
    /\ IF outcome = "ok"
         THEN /\ pc' = [pc EXCEPT ![r] = "wait1"]
              /\ waits' = [waits EXCEPT ![r] = @ + 1]
              /\ recvT' = [recvT EXCEPT ![r] = 0]
              /\ waitT' = [waitT EXCEPT ![r] = 0]
              /\ UNCHANGED << rx, result, result_channel >>
         ELSE /\ Return(r, Err(IF outcome = "json_err" THEN "DeSerialization" ELSE "WebSocket"))
              /\ UNCHANGED << waits, recvT, waitT, discards >>
    /\ Completes(r)
    /\ UNCHANGED << connVars, readerVars, kaVars, kind, response,
                    resp, puts, discards, doomed, dataVars, output >>


\* Mutant of GuidMatches: the waiter takes whatever successful response comes.
GuidMatchesAny(vr, guid) == TRUE

\* line 324: the waiter keeps a successful response only if it carries its guid
GuidMatches(vr, guid) == vr.guid = guid

\* Mutant of WaitReturned: an Unknown response to the wait after the upload
\* sends the request back to decoding and uploading.
WaitReturnedRetry(r, vr) ==
    IF pc[r] = "wait1"
      THEN /\ response' = [response EXCEPT ![r] = vr]
           /\ resp' = resp
           /\ IF kind[r] \in Uploading
                THEN /\ pc' = [pc EXCEPT ![r] = "decode"]
                     /\ rx' = [rx EXCEPT ![r] = NoRx]
                     /\ result_channel' = Retained(result_channel, rx')
                     /\ UNCHANGED result
                ELSE Return(r, VaasVerdictTryFrom(vr))
      ELSE /\ resp' = [resp EXCEPT ![r] = vr]
           /\ response' = response
           /\ IF vr.verdict = "Unknown"
                THEN /\ pc' = [pc EXCEPT ![r] = "decode"]
                     /\ rx' = [rx EXCEPT ![r] = NoRx]
                     /\ result_channel' = Retained(result_channel, rx')
                     /\ UNCHANGED result
                ELSE Return(r, VaasVerdictTryFrom(vr))

\* Mutant of WaitReturned: every operation goes on to decode the verdict
\* and to upload on Unknown.
WaitReturnedAllUpload(r, vr) ==
    IF pc[r] = "wait1"
      THEN /\ response' = [response EXCEPT ![r] = vr]
           /\ resp' = resp
           /\ pc' = [pc EXCEPT ![r] = "decode"]
           /\ rx' = [rx EXCEPT ![r] = NoRx]
           /\ result_channel' = Retained(result_channel, rx')
           /\ UNCHANGED result
      ELSE /\ resp' = [resp EXCEPT ![r] = vr]
           /\ response' = response
           /\ Return(r, VaasVerdictTryFrom(vr))

\* what the operation does with the Ok(vr) its wait_for_response returned:
\* for_sha256 / for_url and the wait of handle_unknown convert and return;
\* for_generic / for_stream keep the response and drop the first receiver.
WaitReturned(r, vr) ==
    IF pc[r] = "wait1"
      THEN /\ response' = [response EXCEPT ![r] = vr]
           /\ resp' = resp
           /\ IF kind[r] \in Uploading
                THEN /\ pc' = [pc EXCEPT ![r] = "decode"]
                     /\ rx' = [rx EXCEPT ![r] = NoRx]
                     /\ result_channel' = Retained(result_channel, rx')
                     /\ UNCHANGED result
                ELSE Return(r, VaasVerdictTryFrom(vr))
      ELSE /\ resp' = [resp EXCEPT ![r] = vr]
           /\ response' = response
           /\ Return(r, VaasVerdictTryFrom(vr))

\* Mutant of RecvLagged: the waiter skips to the oldest item the channel
\* still holds and goes on waiting.
RecvLaggedSkip(r) ==
    /\ rx' = [rx EXCEPT ![r] = Slots]
    /\ result_channel' = Retained(result_channel, rx')
    /\ lagged_by' = [lagged_by EXCEPT ![r] = rx[r] - Slots]
    /\ UNCHANGED << pc, result >>

\* line 320: recv() reports RecvError::Lagged(n), n the number of items the
\* receiver missed, and the second `?` returns it converted
RecvLagged(r) ==
    /\ Return(r, Err(FromRecvError("Lagged")))
    /\ lagged_by' = [lagged_by EXCEPT ![r] = rx[r] - Slots]

\* one iteration of the loop of wait_for_response in which recv() is ready
Recv(r) ==
    /\ pc[r] \in Waiting
    /\ HasUnread(r) \/ Closed
    /\ IF ~HasUnread(r)
         THEN /\ Return(r, Err(FromRecvError("Closed")))
              /\ UNCHANGED << response, resp, recvT, discards, lagged_by >>
         ELSE IF Lagged(r)
         THEN /\ RecvLagged(r)
              /\ UNCHANGED << response, resp, recvT, discards >>
         ELSE LET item == NextItem(r) IN
              IF ~item.ok
                THEN /\ Return(r, Err(item.err))
                     /\ UNCHANGED << response, resp, recvT, discards, lagged_by >>
                ELSE IF GuidMatches(item.vr, r)
                  THEN /\ WaitReturned(r, item.vr)
                       /\ UNCHANGED << recvT, discards, lagged_by >>
                  ELSE /\ rx' = [rx EXCEPT ![r] = @ - 1]
                       /\ result_channel' = Retained(result_channel, rx')
                       /\ recvT' = [recvT EXCEPT ![r] = 0]
                       /\ discards' = [discards EXCEPT ![r] = @ + 1]
                       /\ UNCHANGED << pc, result, response, resp, lagged_by >>
    /\ Completes(r)
    /\ UNCHANGED << connVars, ws_writer, readerVars, kaVars,
                    kind, puts, waits, waitT, doomed,
                    request, content_length, put_len, upload_status, output >>

\* Mutant of Timeout: the waiter publishes its cancellation to the channel.
TimeoutPublished(r) ==
    /\ pc[r] \in Waiting
    /\ ~HasUnread(r)
    /\ recvT[r] >= ct
    /\ pc' = [pc EXCEPT ![r] = "done"]
    /\ result' = [result EXCEPT ![r] = Err(FromElapsed)]
    /\ rx' = [q \in Reqs |-> IF q = r \/ rx[q] = NoRx THEN NoRx ELSE rx[q] + 1]
    /\ result_channel' = Retained(Append(result_channel, ErrItem(FromElapsed)), rx')
    /\ Completes(r)
    /\ UNCHANGED << connVars, ws_writer, readerVars, kaVars,
                    kind, response, resp, puts, waits, recvT, waitT, discards, doomed,
                    dataVars, output >>

\* timeout(ct.duration, recv()) elapses with recv() still pending
Timeout(r) ==
    /\ pc[r] \in Waiting
    /\ ~HasUnread(r) /\ ~Closed
    /\ recvT[r] >= ct
    /\ Return(r, Err(FromElapsed))
    /\ Completes(r)
    /\ UNCHANGED << connVars, ws_writer, readerVars, kaVars,
                    kind, response, resp, puts, waits, recvT, waitT, discards, doomed,
                    dataVars, output >>

\* one unit of time passes; a timeout that is due fires before the next unit
Tick ==
    /\ \E r \in Reqs : pc[r] \in Waiting
    /\ \A r \in Reqs : pc[r] \in Waiting => recvT[r] < ct
    /\ recvT' = [r \in Reqs |-> IF pc[r] \in Waiting THEN recvT[r] + 1 ELSE recvT[r]]
    /\ waitT' = [r \in Reqs |-> IF pc[r] \in Waiting /\ waitT[r] <= ct
                                  THEN waitT[r] + 1 ELSE waitT[r]]
    /\ UNCHANGED << connVars, ws_writer, result_channel, readerVars, kaVars,
                    pc, kind, rx, response, resp, result, puts, waits, discards, doomed,
                    dataVars, batchVars >>

\* for_stream, line 191: the arm for every verdict other than Unknown
StreamTerminal(vr) == Err("Cancelled")

\* for_generic, line 252: the arm for every verdict other than Unknown
GenericTerminal(vr) == VaasVerdictTryFrom(vr)

\* line 270: the only status after which handle_unknown waits again
UploadAccepted(status) == status = 200

\* Mutant of AuthToken: handle_unknown goes on without looking for the token.
AuthTokenAssumed(vr) == TRUE

\* lines 264-267: response.upload_token.as_ref().ok_or(MissingAuthToken)?
AuthToken(vr) == vr.upload_token

\* for_generic / for_stream after the first wait: decode the verdict; on
\* Unknown subscribe again and enter handle_unknown, which needs the token
\* and then upload_internal, which needs the length and the body of the
\* data (a file may fail to be read) before it starts the PUT.
Decode(r, io_ok) ==
    /\ pc[r] = "decode"
    /\ LET verdict == VerdictTryFrom(response[r]) IN
       IF verdict.tag = "err"
         THEN Return(r, verdict) /\ UNCHANGED << puts, put_len >>
         ELSE IF verdict.val # "Unknown"
           THEN /\ Return(r, IF kind[r] = "stream" THEN StreamTerminal(response[r])
                                                   ELSE GenericTerminal(response[r]))
                /\ UNCHANGED << puts, put_len >>
           ELSE IF ~AuthToken(response[r])
             THEN Return(r, Err("MissingAuthToken")) /\ UNCHANGED << puts, put_len >>
             ELSE IF kind[r] = "file" /\ ~io_ok
               THEN Return(r, Err("IoError")) /\ UNCHANGED << puts, put_len >>
               ELSE /\ pc' = [pc EXCEPT ![r] = "upload"]
                    /\ rx' = [rx EXCEPT ![r] = Subscribe]
                    /\ puts' = [puts EXCEPT ![r] = @ + 1]
                    /\ put_len' = [put_len EXCEPT ![r] = content_length[r]]
                    /\ UNCHANGED << result, result_channel >>
    /\ Completes(r)
    /\ UNCHANGED << connVars, ws_writer, readerVars, kaVars,
                    kind, response, resp, waits, recvT, waitT, discards, doomed,
                    request, content_length, upload_status, lagged_by, output >>

\* the PUT of upload_internal completes: status 0 stands for a reqwest error
UploadDone(r, status) ==
    /\ pc[r] = "upload"
    /\ IF status = 0
         THEN Return(r, Err("FailedRequest")) /\ UNCHANGED << waits, recvT, waitT, discards >>
         ELSE IF ~UploadAccepted(status)
           THEN Return(r, Err("FailedUploadFile")) /\ UNCHANGED << waits, recvT, waitT, discards >>
           ELSE /\ pc' = [pc EXCEPT ![r] = "wait2"]
                /\ waits' = [waits EXCEPT ![r] = @ + 1]
                /\ recvT' = [recvT EXCEPT ![r] = 0]
                /\ waitT' = [waitT EXCEPT ![r] = 0]
                /\ UNCHANGED << rx, result, result_channel >>
    /\ upload_status' = [upload_status EXCEPT ![r] = status]
    /\ Completes(r)
    /\ UNCHANGED << connVars, ws_writer, readerVars, kaVars,
                    kind, response, resp, puts, discards, doomed,
                    request, content_length, put_len, lagged_by, output >>


\* ---------------------------------------------------------- list operations
ListKinds == {"sha256", "url", "file"}

\* for_sha256_list / for_url_list / for_file_list map the one single-item
\* operation over the list: element r of the list is request r
StartInList(r, k, hash_ok, n) ==
    /\ \A q \in Reqs : kind[q] \in {"-", k}
    /\ Start(r, k, hash_ok, n)

\* Mutant of JoinAll: the results are collected in the order of completion.
JoinAllUnordered ==
    /\ alive /\ output = << >>
    /\ \A r \in Reqs : pc[r] = "done"
    /\ output' = [i \in 1..Cardinality(Reqs) |-> result[completed[i]]]
    /\ UNCHANGED << connVars, ws_writer, result_channel, readerVars, kaVars,
                    reqVars, discards, doomed, dataVars, completed >>

\* join_all(req).await: once every future of the list has completed, the
\* Vec of their outputs, each in the place of its future
JoinAll ==
    /\ alive /\ output = << >>
    /\ \A r \in Reqs : pc[r] = "done"
    /\ output' = [i \in 1..Cardinality(Reqs) |-> result[i]]
    /\ UNCHANGED << connVars, ws_writer, result_channel, readerVars, kaVars,
                    reqVars, discards, doomed, dataVars, completed >>

\* -------------------------------------------------------------- reader loop
\* start_reader_loop, one iteration: receive a frame, classify it and
\* publish; a failed send ends the task through `?`.
ReaderLoop(frame) ==
    /\ reader_thread = "running"
    /\ nframes < MaxFrames
    /\ nframes' = nframes + 1
    /\ LET m == parse_frame(frame) IN
       IF m.ok /\ m.type \in {"Ping", "Pong"}
         THEN UNCHANGED << result_channel, rx, doomed, reader_thread >>
         ELSE /\ Send(IF ~m.ok THEN ErrItem(m.err)
                      ELSE IF m.type = "Close" THEN ErrItem("ConnectionClosed")
                      ELSE OkItem(m.vr))
              /\ reader_thread' = IF SendOk THEN "running" ELSE "terminated"
    /\ UNCHANGED << connVars, ws_writer, kaVars, pc, kind, response, resp,
                    result, puts, waits, recvT, waitT, discards, dataVars, batchVars >>

\* ---------------------------------------------------------- keep-alive loop
\* tokio::time::sleep(keep_alive_delay_ms) elapses
KeepAliveWake ==
    /\ keep_alive_thread = "sleep"
    /\ nticks < MaxTicks
    /\ nticks' = nticks + 1
    /\ keep_alive_thread' = "lock_ping"
    /\ UNCHANGED << connVars, ws_writer, result_channel, readerVars,
                    ka_failed, reqVars, discards, doomed, dataVars, batchVars >>

\* ws_writer.lock().await of line 342 (ping) or of line 345 (flush)
KeepAliveLock ==
    /\ keep_alive_thread \in {"lock_ping", "lock_flush"}
    /\ ~ws_writer
    /\ ws_writer' = TRUE
    /\ keep_alive_thread' = IF keep_alive_thread = "lock_ping" THEN "ping" ELSE "flush"
    /\ UNCHANGED << connVars, result_channel, readerVars, nticks,
                    ka_failed, reqVars, discards, doomed, dataVars, batchVars >>

\* where the loop goes after a writer operation: on to the next statement,
\* unless the operation failed and publishing the failure failed as well
KeepAliveAfter(op_ok, next) ==
    IF op_ok \/ SendOk THEN next ELSE "terminated"

\* Mutant of KeepAlivePing: the guard taken for the ping is kept for the
\* flush.
KeepAlivePingHold(op_ok) ==
    /\ keep_alive_thread = "ping"
    /\ ws_writer' = TRUE
    /\ ka_failed' = (ka_failed \/ ~op_ok)
    /\ IF op_ok THEN UNCHANGED << result_channel, rx, doomed >>
                ELSE Send(ErrItem("WebSocket"))
    /\ keep_alive_thread' = KeepAliveAfter(op_ok, "flush")
    /\ UNCHANGED << connVars, readerVars, nticks, pc, kind, response, resp,
                    result, puts, waits, recvT, waitT, discards, dataVars, batchVars >>

\* send_ping(None).await completes under the guard; a failure is published
KeepAlivePing(op_ok) ==
    /\ keep_alive_thread = "ping"
    /\ ws_writer' = FALSE
    /\ ka_failed' = (ka_failed \/ ~op_ok)
    /\ IF op_ok THEN UNCHANGED << result_channel, rx, doomed >>
                ELSE Send(ErrItem("WebSocket"))
    /\ keep_alive_thread' = KeepAliveAfter(op_ok, "lock_flush")
    /\ UNCHANGED << connVars, readerVars, nticks, pc, kind, response, resp,
                    result, puts, waits, recvT, waitT, discards, dataVars, batchVars >>

\* flush().await completes under the guard; a failure is published
KeepAliveFlush(op_ok) ==
    /\ keep_alive_thread = "flush"
    /\ ws_writer' = FALSE
    /\ ka_failed' = (ka_failed \/ ~op_ok)
    /\ IF op_ok THEN UNCHANGED << result_channel, rx, doomed >>
                ELSE Send(ErrItem("WebSocket"))
    /\ keep_alive_thread' = KeepAliveAfter(op_ok, "sleep")
    /\ UNCHANGED << connVars, readerVars, nticks, pc, kind, response,
                    resp, result, puts, waits, recvT, waitT, discards, dataVars, batchVars >>

\* --------------------------------------------------------------------- Drop
\* JoinHandle::abort on a task: a finished or absent task is left as it is
Abort(task) == IF task \in {"none", "terminated"} THEN task ELSE "aborted"

\* Mutant of Drop: only the reader task is aborted.
DropReaderOnly ==
    /\ alive
    /\ \A r \in Reqs : pc[r] \in {"idle", "done"}
    /\ alive' = FALSE
    /\ reader_thread' = Abort(reader_thread)
    /\ aborted_in' = keep_alive_thread
    /\ UNCHANGED << keep_alive_thread, ws_writer, keep_alive, ct, result_channel,
                    nframes, nticks, ka_failed, reqVars, discards, doomed,
                    channel_capacity, dataVars, batchVars >>

\* impl Drop for Connection: abort the reader and, when present, the
\* keep-alive task; an aborted task's future is dropped and with it the
\* MutexGuard it holds.  Request operations borrow the Connection, so none
\* is in flight.
Drop ==
    /\ alive
    /\ \A r \in Reqs : pc[r] \in {"idle", "done"}
    /\ alive' = FALSE
    /\ reader_thread' = Abort(reader_thread)
    /\ keep_alive_thread' = Abort(keep_alive_thread)
    /\ ws_writer' = IF keep_alive_thread \in {"ping", "flush"} THEN FALSE ELSE ws_writer
    /\ aborted_in' = keep_alive_thread
    /\ UNCHANGED << keep_alive, ct, result_channel, nframes, nticks,
                    ka_failed, reqVars, discards, doomed,
                    channel_capacity, dataVars, batchVars >>

\* --------------------------------------------------------------------- Next
Statuses == {0, 200, 201, 500}

\* the steps of the requests R, issued as operations of the kinds K
Requests(R, K) ==
    \/ \E r \in R, k \in K, hash_ok \in BOOLEAN, n \in Lens : Start(r, k, hash_ok, n)
    \/ \E r \in R : LockWriter(r)
    \/ \E r \in R, outcome \in {"ok", "json_err", "ws_err"} : SendText(r, outcome)
    \/ \E r \in R : Recv(r)
    \/ \E r \in R : Timeout(r)

\* the upload path of the requests R, the upload answered with a status of S
Uploads(R, S) ==
    \/ \E r \in R, io_ok \in BOOLEAN : Decode(r, io_ok)
    \/ \E r \in R, status \in S : UploadDone(r, status)

KeepAliveLoop ==
    \/ KeepAliveWake
    \/ KeepAliveLock
    \/ \E op_ok \in BOOLEAN : KeepAlivePing(op_ok)
    \/ \E op_ok \in BOOLEAN : KeepAliveFlush(op_ok)

\* The connection with or without keep-alive and two concurrent requests by
\* hash; the transport delivers a clean or an unknown response for either
\* guid, a ping or a close frame.  The token's duration is zero: no time
\* need pass before a pending recv times out, so a timeout may fall between
\* any two other events.
ConcKinds == {"sha256"}
ConcFrames ==
    { f \in Frames : \/ f.kind \in {"Ping", "Close"}
                     \/ /\ f.kind = "Text" /\ f.vr.guid \in Reqs
                        /\ \/ f.vr.verdict = "Clean"
                           \/ f.vr.verdict = "Unknown" /\ f.vr.url /\ f.vr.upload_token }

Init == InitOver(BOOLEAN, {0}, {Cap})

Next ==
    \/ Requests(Reqs, ConcKinds)
    \/ \E frame \in ConcFrames : ReaderLoop(frame)
    \/ KeepAliveLoop
    \/ Drop

Spec == Init /\ [][Next]_vars

\* One request of any kind on a connection without keep-alive, against
\* every frame the transport may deliver (responses for the other guid
\* included) and every upload outcome, with a token of duration D and time
\* passing.
FlowReqs == {1}

InitFlow == InitOver({FALSE}, {D}, {Cap})

NextFlow ==
    \/ Requests(FlowReqs, Kinds)
    \/ Tick
    \/ Uploads(FlowReqs, Statuses)
    \/ \E frame \in Frames : ReaderLoop(frame)
    \/ Drop

SpecFlow == InitFlow /\ [][NextFlow]_vars

\* A list operation over two elements on a connection without keep-alive
\* whose channel holds one item more: both single-item operations run
\* concurrently, with uploads for a list of files, and the token's duration
\* is zero as in Spec.  The transport also delivers a clean response that
\* belongs to neither element.
ListFrames ==
    { f \in Frames : \/ f.kind \in {"Ping", "Close"}
                     \/ /\ f.kind = "Text"
                        /\ \/ f.vr.verdict = "Clean"
                           \/ f.vr.verdict = "Unknown" /\ f.vr.url /\ f.vr.guid \in Reqs }

InitList == InitOver({FALSE}, {0}, {Cap + 1})

NextList ==
    \/ \E r \in Reqs, k \in ListKinds, hash_ok \in BOOLEAN, n \in Lens :
          StartInList(r, k, hash_ok, n)
    \/ \E r \in Reqs : LockWriter(r)
    \/ \E r \in Reqs, outcome \in {"ok", "json_err", "ws_err"} : SendText(r, outcome)
    \/ \E r \in Reqs : Recv(r)
    \/ \E r \in Reqs : Timeout(r)
    \/ Uploads(Reqs, Statuses)
    \/ \E frame \in ListFrames : ReaderLoop(frame)
    \/ JoinAll
    \/ Drop

SpecList == InitList /\ [][NextList]_vars

TypeOK ==
    /\ alive \in BOOLEAN /\ ws_writer \in BOOLEAN
    /\ reader_thread \in {"running", "terminated", "aborted"}
    /\ \A r \in Reqs : rx[r] >= NoRx
    /\ Len(result_channel) <= Slots
    /\ \A r \in Reqs : result[r].tag \in {"none", "ok", "err"}
    /\ \A r \in Reqs : lagged_by[r] >= 0 /\ put_len[r] \in Lens \cup {0}
    /\ Len(completed) <= Cardinality(Reqs)

\* ------------------------------------------------------------------ claims

\* every response a wait has returned carries the guid of its request
C1_OwnGuid ==
    \A r \in Reqs : /\ response[r] # NoResp => response[r].guid = r
                    /\ resp[r] # NoResp => resp[r].guid = r

\* a step in which a waiter receives a successful response carrying another
\* guid leaves the waiter waiting and returns nothing
C1_Discard ==
    \A r \in Reqs :
        ( /\ pc[r] \in Waiting /\ HasUnread(r) /\ ~Lagged(r)
          /\ NextItem(r).ok /\ NextItem(r).vr.guid # r
          /\ rx'[r] < rx[r] )
        => /\ pc'[r] = pc[r] /\ result'[r] = result[r]
           /\ response'[r] = response[r] /\ resp'[r] = resp[r]

\* C1: a waiter's wait_for_response returns Ok(vr) only for a response that
\* carries the waiter's own guid, and a waiter that receives a successful
\* response carrying another guid discards it and goes on waiting without
\* returning anything, whatever the interleaving on the shared channel.
C1_OnlyMatchingResponse == [] C1_OwnGuid /\ [][C1_Discard]_vars

\* both requests waited at once, a response for the other guid was discarded
\* and each request returned its own response
C1_Witness ==
    /\ pc[1] = "done" /\ pc[2] = "done"
    /\ result[1].tag = "ok" /\ result[2].tag = "ok"
    /\ response[1].guid = 1 /\ response[2].guid = 2
    /\ discards[1] + discards[2] >= 1

\* C2: a request that was blocked in wait_for_response (nothing left for it
\* to receive) when a connection-wide failure was published does not stay
\* blocked, since an item is there for it to receive, and once its wait has
\* returned it has returned a failure.
C2_AllWaitersFail ==
    \A r \in Reqs :
        doomed[r] => \/ pc[r] \in Waiting /\ HasUnread(r)
                     \/ pc[r] = "done" /\ result[r].tag = "err"

\* a close frame was published while both requests were blocked, and both
\* have returned the connection-closed failure
C2_Witness ==
    \A r \in Reqs : /\ doomed[r] /\ pc[r] = "done"
                    /\ result[r] = Err("ConnectionClosed")

\* C3: a call of wait_for_response has returned by the time the token's
\* duration has passed since the call began; no waiter is still waiting
\* later than that.
C3_WaitBoundedByDuration ==
    \A r \in Reqs : pc[r] \in Waiting => waitT[r] <= ct

\* C4: while the Connection is alive and the transport has frames to
\* deliver, the reader loop is running.
C4_ReaderRunsWhileAlive ==
    (alive /\ nframes < MaxFrames) => reader_thread = "running"

\* the response decodes to a verdict other than Unknown
Terminal(vr) ==
    /\ vr # NoResp
    /\ VerdictTryFrom(vr).tag = "ok"
    /\ VerdictTryFrom(vr).val # "Unknown"

\* C5: a request of any kind whose first matching response decodes to a
\* terminal verdict returns that verdict as its successful result and has
\* made no upload.
C5_TerminalVerdictReturned ==
    \A r \in Reqs :
        (pc[r] = "done" /\ Terminal(response[r]))
        => result[r] = Ok(response[r].verdict) /\ puts[r] = 0

\* the first matching response decoded to Unknown and carries an upload token
FirstUnknownWithToken(r) ==
    /\ response[r] # NoResp
    /\ VerdictTryFrom(response[r]) = Ok("Unknown")
    /\ response[r].upload_token

\* C6: a file, buffer or stream request starts at most one PUT, and exactly
\* one once its first matching response has decoded to Unknown and carries
\* an upload token.
C6_ExactlyOneUpload ==
    \A r \in Reqs :
        /\ puts[r] <= 1
        /\ (pc[r] = "done" /\ kind[r] \in Uploading /\ FirstUnknownWithToken(r))
           => puts[r] = 1

\* C6, amended: at most one PUT; exactly one once the first matching
\* response has decoded to Unknown and carries an upload token, unless the
\* length or the body of the file could not be read, in which case the
\* request has failed with the I/O failure without a PUT; and no PUT
\* without such a first response.
C6_AtMostOneUpload ==
    \A r \in Reqs :
        /\ puts[r] <= 1
        /\ ( /\ pc[r] \in {"upload", "wait2", "done"}
             /\ kind[r] \in Uploading
             /\ FirstUnknownWithToken(r)
             /\ result[r] # Err("IoError") ) => puts[r] = 1
        /\ puts[r] = 1 => (kind[r] \in Uploading /\ FirstUnknownWithToken(r))

\* a file request uploaded once, was answered Unknown again after the
\* upload and has returned, still with one PUT
C6_Witness ==
    \E r \in Reqs : /\ pc[r] = "done" /\ kind[r] = "file"
                    /\ resp[r].verdict = "Unknown" /\ puts[r] = 1

\* C7: a request whose wait after the upload returned an Unknown response
\* ends with a failure.
C7_SecondUnknownFails ==
    \A r \in Reqs :
        (pc[r] = "done" /\ resp[r] # NoResp /\ resp[r].verdict = "Unknown")
        => result[r].tag = "err"

\* C8: once a ping or a flush of the keep-alive loop has failed, the loop
\* has terminated.
C8_FailedTickTerminates ==
    ka_failed => keep_alive_thread \in {"terminated", "aborted"}

\* the number of tasks inside an operation on the writer
WriterUsers ==
    Cardinality({r \in Reqs : pc[r] = "send"})
    + (IF keep_alive_thread \in {"ping", "flush"} THEN 1 ELSE 0)

\* C9: at most one task (a request in send_text, the keep-alive loop in
\* send_ping or flush) is performing an operation on the writer.
C9_MutualExclusion == WriterUsers <= 1

\* one request is writing while the other request and the keep-alive loop
\* wait for the writer
C9_Witness ==
    /\ pc[1] = "send" /\ pc[2] = "lock" /\ keep_alive_thread = "lock_ping"

\* after Drop both tasks are over and the mutex is free; a held mutex has a
\* live task inside its writer operation
C10_Dropped ==
    /\ ~alive => /\ reader_thread \in {"aborted", "terminated"}
                 /\ keep_alive_thread \in {"none", "aborted", "terminated"}
                 /\ ~ws_writer
    /\ ws_writer => WriterUsers >= 1

Answer(r) == IF resp[r] # NoResp THEN resp[r] ELSE response[r]

\* C11: the Vec a list operation returns has one element per input and its
\* i-th element is the result of the single-item operation on the i-th
\* input (a verdict in it is the one decoded from a response carrying the
\* i-th guid), in whatever order the operations completed.
C11_ListOrderPreserved ==
    output # << >> =>
        /\ Len(output) = Cardinality(Reqs)
        /\ \A i \in Reqs :
              /\ output[i] = result[i]
              /\ output[i].tag = "ok" =>
                    /\ Answer(i).guid = i
                    /\ output[i] = VaasVerdictTryFrom(Answer(i))

\* the second element's response arrived first and was discarded by the
\* first operation, the second operation completed first, and the verdicts
\* are in the order of the inputs
C11_Witness ==
    /\ output = << Ok("Clean"), Ok("Unknown") >>
    /\ completed = << 2, 1 >>
    /\ discards[1] >= 1

\* a request that is about to send, has sent, is uploading or is waiting
\* holds a receiver of the channel
C12_Subscribed ==
    \A r \in Reqs :
        pc[r] \in {"lock", "send", "wait1", "upload", "wait2"} => rx[r] # NoRx

\* a frame the reader publishes reaches every receiver there is, and a wait
\* that ends by its timeout had nothing left to receive
C12_Delivered ==
    /\ nframes' # nframes =>
          \/ rx' = rx
          \/ /\ result_channel' # << >>
             /\ \A r \in Reqs : rx[r] # NoRx => rx'[r] = rx[r] + 1
    /\ \A r \in Reqs :
          (pc[r] \in Waiting /\ pc'[r] = "done" /\ result'[r] = Err(FromElapsed))
          => rx[r] = 0

\* C12: every operation subscribes before it writes its request, and on the
\* upload path again before the upload starts; whatever is published from
\* then on is delivered to its receiver, and its wait does not end by the
\* timeout while an item is there to be received.
C12_SubscribedBeforeSend == [] C12_Subscribed /\ [][C12_Delivered]_vars

\* the response to the upload was published while the PUT was still under
\* way, before the second wait began
C12_Witness ==
    \E r \in Reqs : /\ pc[r] = "upload" /\ rx[r] = 1
                    /\ NextItem(r).ok /\ NextItem(r).vr.guid = r

\* only a request whose receiver missed items has the readers-lagging
\* failure, and it has it with the number of items missed
C13_OnlyLaggards ==
    \A r \in Reqs :
        /\ result[r] = Err("ReadersLagging") <=> lagged_by[r] > 0
        /\ lagged_by[r] > 0 => pc[r] = "done"

\* a waiter whose receiver has missed items and which receives next ends
\* with the readers-lagging failure, the number of items being those sent to
\* it beyond what the channel holds, and the step changes no other request
C13_LagSurfaced ==
    \A r \in Reqs :
        (pc[r] \in Waiting /\ Lagged(r) /\ rx'[r] < rx[r])
        => /\ pc'[r] = "done"
           /\ result'[r] = Err("ReadersLagging")
           /\ lagged_by'[r] = rx[r] - Slots
           /\ \A q \in Reqs \ {r} :
                 pc'[q] = pc[q] /\ result'[q] = result[q] /\ rx'[q] = rx[q]

\* C13: a subscriber that has had more items sent to it than the channel
\* holds, so that it missed the oldest, gets the readers-lagging failure
\* with the number of items missed from its wait and does not go on past
\* them; no subscriber that did not lag is failed by it.
C13_LagIsReported == [] C13_OnlyLaggards /\ [][C13_LagSurfaced]_vars

\* two items were published while the second request had received none: it
\* missed one and failed, the first request kept up and got its verdict
C13_Witness ==
    /\ result[2] = Err("ReadersLagging") /\ lagged_by[2] = 1
    /\ result[1].tag = "ok" /\ discards[1] = 1

\* StatusCode::is_success
HttpSuccess(status) == status >= 200 /\ status < 300

\* C14: a request whose upload was answered with a success status has gone
\* on to the second wait, and one whose upload was answered with any other
\* status has ended with the failed-upload failure without a second wait.
C14_SuccessStatusWaitsAgain ==
    \A r \in Reqs :
        upload_status[r] # 0 =>
            IF HttpSuccess(upload_status[r])
              THEN pc[r] \in {"wait2", "done"} /\ waits[r] = 2
              ELSE /\ pc[r] = "done" /\ waits[r] = 1
                   /\ result[r] = Err("FailedUploadFile")

\* C15: a file, buffer or stream request whose first matching response
\* decoded to Unknown and carries no upload token makes no PUT and no second
\* wait, and ends with the missing-authorization-token failure.
C15_MissingTokenFails ==
    \A r \in Reqs :
        ( /\ kind[r] \in Uploading /\ response[r] # NoResp
          /\ VerdictTryFrom(response[r]) = Ok("Unknown")
          /\ ~response[r].upload_token )
        => /\ pc[r] \in {"decode", "done"}
           /\ puts[r] = 0 /\ waits[r] = 1 /\ upload_status[r] = 0
           /\ pc[r] = "done" => result[r] = Err("MissingAuthToken")

\* a stream request was answered Unknown with an upload location and no
\* token, and has failed
C15_Witness ==
    \E r \in Reqs : /\ kind[r] = "stream" /\ response[r].verdict = "Unknown"
                    /\ response[r].url /\ ~response[r].upload_token
                    /\ result[r] = Err("MissingAuthToken")

\* the failures one request incurs on its own
PerRequestFailures ==
    { Err("FailedUploadFile"), Err("MissingAuthToken"), Err("FailedRequest"),
      Err(FromElapsed) }

\* the newest n items of the channel; the items request q has still to
\* receive
Newest(buf, n) == SubSeq(buf, Len(buf) - n + 1, Len(buf))
Unread(buf, q) == Newest(buf, rx[q])

\* a step in which a request ends with a failure of its own publishes
\* nothing and leaves every other request where it was, with the same items
\* to receive
C16_Local ==
    \A r \in Reqs :
        (pc[r] # "done" /\ pc'[r] = "done" /\ result'[r] \in PerRequestFailures)
        => /\ Len(result_channel') <= Len(result_channel)
           /\ reader_thread' = reader_thread /\ doomed' = doomed
           /\ \A q \in Reqs \ {r} :
                 /\ pc'[q] = pc[q] /\ result'[q] = result[q] /\ rx'[q] = rx[q]
                 /\ response'[q] = response[q] /\ resp'[q] = resp[q]
                 /\ rx[q] > 0 => Unread(result_channel', q) = Unread(result_channel, q)

\* C16: a failed upload status, a missing upload token, an upload request
\* error and a timeout end the one request that incurred them: nothing is
\* published, and every other request keeps its place, its receiver and the
\* items it has still to receive.
C16_FailureStaysLocal == [][C16_Local]_vars

\* the first element of a list of files failed with the upload status while
\* the second, which had discarded the first's response, was in flight; the
\* second got its own response afterwards
C16_Witness ==
    /\ result[1] = Err("FailedUploadFile") /\ completed = << 1, 2 >>
    /\ discards[2] = 1 /\ result[2] = Ok("Clean") /\ response[2].guid = 2

\* the oldest item request r has still to receive
Oldest(r) == Unread(result_channel, r)[1]

\* what a receiver that has not lagged takes is the oldest item it has
\* still to receive: it discards it, returns its response or returns its
\* failure, and the items left to it are the rest in the same order; an item
\* the reader publishes comes after the items the receiver still has
C17_InOrder ==
    \A r \in Reqs :
        /\ (pc[r] \in Waiting /\ rx[r] > 0 /\ ~Lagged(r) /\ rx'[r] < rx[r]) =>
              /\ pc'[r] = pc[r] =>
                    /\ Oldest(r).ok /\ Oldest(r).vr.guid # r
                    /\ Newest(result_channel', rx'[r]) = Tail(Unread(result_channel, r))
              /\ (pc'[r] # pc[r] /\ Oldest(r).ok) =>
                    IF pc[r] = "wait1" THEN response'[r] = Oldest(r).vr
                                       ELSE resp'[r] = Oldest(r).vr
              /\ (pc'[r] # pc[r] /\ ~Oldest(r).ok) => result'[r] = Err(Oldest(r).err)
        /\ (nframes' # nframes /\ rx[r] >= 0 /\ rx'[r] = rx[r] + 1 /\ rx'[r] <= Slots) =>
              SubSeq(Newest(result_channel', rx'[r]), 1, rx[r]) = Unread(result_channel, r)

\* C17: a subscriber receives the items in the order the reader published
\* them, which is the order of the frames: every receive takes the oldest
\* item not yet received and each published item is placed after them; two
\* subscribers read the same sequence and so agree on the order.
C17_PublishOrder == [][C17_InOrder]_vars

\* both elements received the same two items: a response belonging to
\* neither, which both discarded, and then the response of the first, which
\* the first returned and the second discarded
C17_Witness ==
    /\ discards[1] = 1 /\ result[1].tag = "ok" /\ response[1].guid = 1
    /\ discards[2] = 2 /\ nframes = 2

\* the newest item of the channel
Published == result_channel[Len(result_channel)]

\* what the reader's step for frame f does to the channel when a receiver
\* exists
C18_Effect(f) ==
    IF f.kind \in {"Ping", "Pong"}
      THEN /\ rx' = rx /\ result_channel' = result_channel
           /\ pc' = pc /\ doomed' = doomed
      ELSE SendOk =>
           /\ \A r \in Reqs : rx[r] # NoRx => rx'[r] = rx[r] + 1
           /\ Len(result_channel') <= Len(result_channel) + 1
           /\ result_channel' # << >>
           /\ CASE f.kind = "Text" -> Published' = OkItem(f.vr)
                [] f.kind = "TextGarbage" -> ~Published'.ok
                [] f.kind = "Close" -> Published' = ErrItem("ConnectionClosed")
                [] f.kind = "ReadError" -> Published' = ErrItem("WebSocket")
                [] OTHER -> Published' = ErrItem("InvalidFrame")

\* C18: the step of the reader loop for a frame publishes nothing for a
\* ping or a pong and exactly one item for any other frame: the response of
\* a text frame that decodes, a failure for a text frame that does not, the
\* connection-closed failure for a close frame, the transport failure for a
\* read error and the invalid-frame failure for every other kind of frame.
C18_FrameClassification ==
    [][nframes' # nframes => \A f \in Frames : ReaderLoop(f) => C18_Effect(f)]_vars

\* a waiter has returned the invalid-frame failure the reader published for
\* a binary frame
C18_Witness ==
    \E r \in Reqs : result[r] = Err("InvalidFrame") /\ nframes >= 1

\* C19: the hash of a stream source cannot be had (get_sha256 panics), and
\* a stream request never asks for it: it does not panic, its request
\* message carries no hash, and its PUT, if it makes one, has the length the
\* caller declared.
C19_StreamNeverHashed ==
    /\ \A hash_ok \in BOOLEAN : get_sha256("stream", hash_ok) = Panic
    /\ \A r \in Reqs :
          kind[r] = "stream" =>
              /\ result[r] # Panic
              /\ request[r] = [type |-> "VerdictRequestForStream", sha256 |-> FALSE]
              /\ put_len[r] = IF puts[r] = 0 THEN 0 ELSE content_length[r]

\* a stream declared with length 2 was answered Unknown, uploaded with
\* Content-Length 2 and got its verdict from the second response
C19_Witness ==
    \E r \in Reqs : /\ kind[r] = "stream" /\ content_length[r] = 2
                    /\ puts[r] = 1 /\ put_len[r] = 2
                    /\ pc[r] = "done" /\ result[r] = Ok("Clean")

\* C20: no request performs its send_text between the ping and the flush
\* of one keep-alive tick.
C20_SingleAcquisition ==
    \A r \in Reqs : ~(keep_alive_thread = "lock_flush" /\ pc[r] = "send")

\* the ping and the flush are each performed with the writer held by the
\* keep-alive loop alone; between them the loop does not hold it
C20_HeldPerOperation ==
    /\ keep_alive_thread \in {"ping", "flush"} =>
          ws_writer /\ \A r \in Reqs : pc[r] # "send"
    /\ (keep_alive_thread = "lock_flush" /\ ws_writer) => \E r \in Reqs : pc[r] = "send"

\* C20, amended: on each tick the loop takes the writer once for the ping
\* and once more for the flush; each of the two is performed under
\* exclusive access and the writer is released when the ping is over, so
\* that a request may perform its send_text between the two.
C20_LockPerOperation ==
    /\ [] C20_HeldPerOperation
    /\ [][(keep_alive_thread = "ping" /\ keep_alive_thread' # "ping") => ~ws_writer']_vars

\* the ping of a tick is over, its flush is waiting for the writer, and a
\* request is writing
C20_Witness ==
    /\ keep_alive_thread = "lock_flush" /\ nticks = 1
    /\ \E r \in Reqs : pc[r] = "send" /\ ws_writer

\* the failures of writing a request: to_json and send_text
SendFailures == { Err("DeSerialization"), Err("WebSocket") }

\* a step in which a request ends out of its send returns one of the
\* failures of the send without having waited, frees the writer, publishes
\* nothing and leaves every other request where it was, with the same items
\* to receive
C21_Local ==
    \A r \in Reqs :
        (pc[r] = "send" /\ pc'[r] = "done")
        => /\ result'[r] \in SendFailures
           /\ waits'[r] = 0 /\ response'[r] = NoResp /\ puts'[r] = 0
           /\ ~ws_writer'
           /\ Len(result_channel') <= Len(result_channel)
           /\ reader_thread' = reader_thread /\ doomed' = doomed
           /\ \A q \in Reqs \ {r} :
                 /\ pc'[q] = pc[q] /\ result'[q] = result[q] /\ rx'[q] = rx[q]
                 /\ response'[q] = response[q] /\ resp'[q] = resp[q]
                 /\ rx[q] > 0 => Unread(result_channel', q) = Unread(result_channel, q)

\* C21: a request whose message cannot be serialized or written returns
\* that failure at once: it has not waited, the writer is free, nothing was
\* published and the other requests are as they were.
C21_SendFailureReturns ==
    /\ [] (\A r \in Reqs : (pc[r] = "done" /\ waits[r] = 0 /\ request[r] # NoRequest)
                               => result[r] \in SendFailures)
    /\ [][C21_Local]_vars

\* the first element's send failed; the second, which was in flight, waited
\* and got its own response afterwards
C21_Witness ==
    /\ result[1] = Err("WebSocket") /\ waits[1] = 0 /\ completed = << 1, 2 >>
    /\ result[2] = Ok("Clean") /\ response[2].guid = 2 /\ ~ws_writer

\* a request by hash or by url is before its send, in it, in its one wait
\* or over; it has no upload and no second wait, and it is over as soon as
\* its wait has returned a response
C22_Direct ==
    \A r \in Reqs :
        kind[r] \in {"sha256", "url"} =>
            /\ pc[r] \in {"lock", "send", "wait1", "done"}
            /\ puts[r] = 0 /\ upload_status[r] = 0 /\ resp[r] = NoResp
            /\ pc[r] \in {"lock", "send"} => waits[r] = 0
            /\ waits[r] <= 1
            /\ pc[r] = "wait1" => waits[r] = 1
            /\ response[r] # NoResp =>
                  pc[r] = "done" /\ waits[r] = 1 /\ result[r].tag \in {"ok", "err"}

\* the request enters its send once, from the lock it asked for once
C22_SendOnce ==
    \A r \in Reqs :
        kind'[r] \in {"sha256", "url"} =>
            /\ (pc'[r] = "send" /\ pc[r] # "send") => pc[r] = "lock"
            /\ (pc'[r] = "lock" /\ pc[r] # "lock") => pc[r] = "idle"
            /\ (pc'[r] = "wait1" /\ pc[r] # "wait1") => pc[r] = "send"

\* C22: a request by hash or by url sends once and waits once; it makes no
\* upload and no second wait, and whatever its first matching response is,
\* Unknown included, it ends with the decoding of that response.
C22_NoUploadByHashOrUrl == [] C22_Direct /\ [][C22_SendOnce]_vars

\* a request by hash or by url was answered Unknown with an upload location
\* and a token, and is over without an upload
C22_Witness ==
    \E r \in Reqs : /\ kind[r] \in {"sha256", "url"} /\ pc[r] = "done"
                    /\ response[r].verdict = "Unknown"
                    /\ response[r].url /\ response[r].upload_token
                    /\ puts[r] = 0 /\ waits[r] = 1

\* neither background task is there to publish
NoPublisher ==
    reader_thread # "running" /\ ~KeepAliveRuns

\* while the Connection is alive the channel is not closed, a request in
\* flight has the Connection alive, and no request has been told that all
\* tasks terminated
C23_NeverClosed ==
    /\ alive => ~Closed
    /\ \A r \in Reqs :
          /\ pc[r] \notin {"idle", "done"} => alive
          /\ result[r] # Err("ThreadsDropped")

\* a wait that ends when no publisher is left ends by its timeout
C23_EndsByTimeout ==
    \A r \in Reqs :
        (pc[r] \in Waiting /\ NoPublisher /\ pc'[r] # pc[r])
        => /\ rx[r] = 0
           /\ pc'[r] = "done" /\ result'[r] = Err(FromElapsed)

====
